---- MODULE Spec2Model ----
(***************************************************************************)
(* Model of the database metadata crate (src/database) and of the parts of *)
(* the reverse_cli generator that drive it.                                *)
(*                                                                         *)
(* Strings whose characters matter (connection URLs, native type names)    *)
(* are sequences of one-character strings, so that trim / to_lowercase /   *)
(* to_uppercase / starts_with are computed character by character.  Names  *)
(* that the code only compares for equality or emptiness (database,        *)
(* schema, table and column names) are TLA+ strings.  The alphabet is      *)
(* ASCII.                                                                  *)
(***************************************************************************)
EXTENDS Integers, Sequences, FiniteSets, TLC

VARIABLES catalog, pc, call, result, tables, columns, queries,
          files, dirs, templates, invocations, data, wrote, tasks

vars == << catalog, pc, call, result, tables, columns, queries,
           files, dirs, templates, invocations, data, wrote, tasks >>

(***************************************************************************)
(* Bounds of the model.                                                    *)
(***************************************************************************)
\* Number of leading positions of an input string whose letter case is
\* varied independently (the all-upper-case form is always included too).
CaseWidth == 3
\* Largest number of columns of a relation of the catalog.
MaxCols == 2
\* Largest number of operations outstanding at once.
MaxTasks == 2
\* Largest number of invocations of the generator program on one file system.
MaxInvocations == 2

(***************************************************************************)
(* std::str helpers.                                                       *)
(***************************************************************************)
Lowers ==
  <<"a","b","c","d","e","f","g","h","i","j","k","l","m",
    "n","o","p","q","r","s","t","u","v","w","x","y","z">>

Uppers ==
  <<"A","B","C","D","E","F","G","H","I","J","K","L","M",
    "N","O","P","Q","R","S","T","U","V","W","X","Y","Z">>

\* U+000B, the vertical tab.
VerticalTab == ""

\* char::is_whitespace, restricted to the ASCII alphabet of the model:
\* space, tab, line feed, vertical tab, form feed and carriage return.
Whitespace == {" ", "\t", "\n", VerticalTab, "\f", "\r"}

ToLowerChar(c) ==
  IF \E i \in 1..Len(Uppers) : Uppers[i] = c
    THEN Lowers[CHOOSE i \in 1..Len(Uppers) : Uppers[i] = c]
    ELSE c

ToUpperChar(c) ==
  IF \E i \in 1..Len(Lowers) : Lowers[i] = c
    THEN Uppers[CHOOSE i \in 1..Len(Lowers) : Lowers[i] = c]
    ELSE c

\* str::to_lowercase
ToLowercase(s) == [i \in 1..Len(s) |-> ToLowerChar(s[i])]

\* str::to_uppercase
ToUppercase(s) == [i \in 1..Len(s) |-> ToUpperChar(s[i])]

RECURSIVE TrimStart(_)
TrimStart(s) ==
  IF s # <<>> /\ Head(s) \in Whitespace THEN TrimStart(Tail(s)) ELSE s

RECURSIVE TrimEnd(_)
TrimEnd(s) ==
  IF s # <<>> /\ s[Len(s)] \in Whitespace
    THEN TrimEnd(SubSeq(s, 1, Len(s) - 1))
    ELSE s

\* str::trim
Trim(s) == TrimEnd(TrimStart(s))

\* str::starts_with
StartsWith(s, prefix) ==
  /\ Len(s) >= Len(prefix)
  /\ SubSeq(s, 1, Len(prefix)) = prefix

Min(S) == CHOOSE x \in S : \A y \in S : x <= y

(***************************************************************************)
(* Outcomes of a call.  A Result-typed function returns Ok or Err; a plain *)
(* function returns a value; a call may also unwind with a panic or end    *)
(* the process.                                                            *)
(***************************************************************************)
Ok(v) == [kind |-> "Ok", value |-> v]

Err(e) == [kind |-> "Err", error |-> e]

Return(v) == [kind |-> "return", value |-> v]

Panic(m) == [kind |-> "panic", msg |-> m]

Exit(c) == [kind |-> "exit", code |-> c]

NoResult == [kind |-> "none"]

\* error::Error
ErrorE(m) == [variant |-> "E", msg |-> m]

ErrorSql(cause) == [variant |-> "Sql", source |-> cause]

ErrorIo == [variant |-> "Io"]

ErrorUnknown == [variant |-> "Unknown"]

(***************************************************************************)
(* Driver resolver.                                                        *)
(***************************************************************************)
Driver == {"Mysql", "Postgres", "Sqlite"}

PrefixMysql == <<"m","y","s","q","l">>

PrefixPostgres == <<"p","o","s","t","g","r","e","s">>

PrefixSqlite == <<"s","q","l","i","t","e">>

\* The unsupported-driver error try_from returns.
UnsupportedDriver == ErrorE("driver not support")

\* Mutant of DriverTryFrom: the input is not trimmed.
DriverTryFromUntrimmed(value) ==
  LET driver == ToLowercase(value) IN
    IF StartsWith(driver, PrefixMysql) THEN Ok("Mysql")
    ELSE IF StartsWith(driver, PrefixPostgres) THEN Ok("Postgres")
    ELSE IF StartsWith(driver, PrefixSqlite) THEN Ok("Sqlite")
    ELSE Err(UnsupportedDriver)

\* Mutant of DriverTryFrom: no match is reported as Error::Unknown.
DriverTryFromUnknown(value) ==
  LET driver == ToLowercase(Trim(value)) IN
    IF StartsWith(driver, PrefixMysql) THEN Ok("Mysql")
    ELSE IF StartsWith(driver, PrefixPostgres) THEN Ok("Postgres")
    ELSE IF StartsWith(driver, PrefixSqlite) THEN Ok("Sqlite")
    ELSE Err(ErrorUnknown)

\* impl TryFrom<&str> for Driver
DriverTryFrom(value) ==
  LET driver == ToLowercase(Trim(value)) IN
    IF StartsWith(driver, PrefixMysql) THEN Ok("Mysql")
    ELSE IF StartsWith(driver, PrefixPostgres) THEN Ok("Postgres")
    ELSE IF StartsWith(driver, PrefixSqlite) THEN Ok("Sqlite")
    ELSE Err(UnsupportedDriver)

(***************************************************************************)
(* Type mapper.                                                            *)
(***************************************************************************)
\* enum ColumnType: each variant is written as its identifier.
ColumnType ==
  { <<"B","i","g","i","n","t">>,
    <<"B","i","n","a","r","y">>,
    <<"B","i","t">>,
    <<"B","l","o","b">>,
    <<"C","h","a","r">>,
    <<"D","a","t","e">>,
    <<"D","a","t","e","T","i","m","e">>,
    <<"D","e","c","i","m","a","l">>,
    <<"D","o","u","b","l","e">>,
    <<"E","n","u","m">>,
    <<"F","l","o","a","t">>,
    <<"G","e","o","m","e","t","r","y">>,
    <<"G","e","o","m","e","t","r","y","C","o","l","l","e","c","t","i","o","n">>,
    <<"I","n","t">>,
    <<"I","n","t","e","g","e","r">>,
    <<"J","s","o","n">>,
    <<"L","i","n","e","S","t","r","i","n","g">>,
    <<"L","o","n","g","B","l","o","b">>,
    <<"L","o","n","g","T","e","x","t">>,
    <<"M","e","d","i","u","m","B","l","o","b">>,
    <<"M","e","d","i","u","m","I","n","t">>,
    <<"M","e","d","i","u","m","T","e","x","t">>,
    <<"M","u","l","t","i","l","i","n","e","S","t","r","i","n","g">>,
    <<"M","u","l","t","i","P","o","i","n","t">>,
    <<"N","u","m","e","r","i","c">>,
    <<"P","o","i","n","t">>,
    <<"P","o","l","y","g","o","n">>,
    <<"R","e","a","l">>,
    <<"S","e","t">>,
    <<"S","m","a","l","l","I","n","t">>,
    <<"T","e","x","t">>,
    <<"T","i","m","e">>,
    <<"T","i","m","e","s","t","a","m","p">>,
    <<"T","i","n","y","B","l","o","b">>,
    <<"T","i","n","y","I","n","t">>,
    <<"T","i","n","y","T","e","x","t">>,
    <<"V","a","r","b","i","n","a","r","y">>,
    <<"V","a","r","C","h","a","r">>,
    <<"Y","e","a","r">> }

\* The match arms of ColumnType::from, in source order: << literal, variant >>.
ColumnTypeArms ==
  << << <<"B","I","G","I","N","T">>, <<"B","i","g","i","n","t">> >>,
     << <<"B","I","N","A","R","Y">>, <<"B","i","n","a","r","y">> >>,
     << <<"B","I","T">>, <<"B","i","t">> >>,
     << <<"B","L","O","B">>, <<"B","l","o","b">> >>,
     << <<"C","H","A","R">>, <<"C","h","a","r">> >>,
     << <<"D","A","T","E">>, <<"D","a","t","e">> >>,
     << <<"D","A","T","E","T","I","M","E">>, <<"D","a","t","e","T","i","m","e">> >>,
     << <<"D","E","C","I","M","A","L">>, <<"D","e","c","i","m","a","l">> >>,
     << <<"D","O","U","B","L","E">>, <<"D","o","u","b","l","e">> >>,
     << <<"E","N","U","M">>, <<"E","n","u","m">> >>,
     << <<"F","L","O","A","T">>, <<"F","l","o","a","t">> >>,
     << <<"G","E","O","M","E","T","R","Y">>, <<"G","e","o","m","e","t","r","y">> >>,
     << <<"G","E","O","M","E","T","R","Y","C","O","L","L","E","C","T","I","O","N">>, <<"G","e","o","m","e","t","r","y","C","o","l","l","e","c","t","i","o","n">> >>,
     << <<"I","N","T">>, <<"I","n","t">> >>,
     << <<"I","N","T","E","G","E","R">>, <<"I","n","t","e","g","e","r">> >>,
     << <<"J","S","O","N">>, <<"J","s","o","n">> >>,
     << <<"L","I","N","E","S","T","R","I","N","G">>, <<"L","i","n","e","S","t","r","i","n","g">> >>,
     << <<"L","O","N","G","B","L","O","B">>, <<"L","o","n","g","B","l","o","b">> >>,
     << <<"L","O","N","G","T","E","X","T">>, <<"L","o","n","g","T","e","x","t">> >>,
     << <<"M","E","D","I","U","M","B","L","O","B">>, <<"M","e","d","i","u","m","B","l","o","b">> >>,
     << <<"M","E","D","I","U","M","I","N","T">>, <<"M","e","d","i","u","m","I","n","t">> >>,
     << <<"M","E","D","I","U","M","T","E","X","T">>, <<"M","e","d","i","u","m","T","e","x","t">> >>,
     << <<"M","U","L","T","I","L","I","N","E","S","T","R","I","N","G">>, <<"M","u","l","t","i","l","i","n","e","S","t","r","i","n","g">> >>,
     << <<"M","U","L","T","I","P","O","I","N","T">>, <<"M","u","l","t","i","P","o","i","n","t">> >>,
     << <<"N","U","M","E","R","I","C">>, <<"N","u","m","e","r","i","c">> >>,
     << <<"P","O","I","N","T">>, <<"P","o","i","n","t">> >>,
     << <<"P","O","L","Y","G","O","N">>, <<"P","o","l","y","g","o","n">> >>,
     << <<"R","E","A","L">>, <<"R","e","a","l">> >>,
     << <<"S","E","T">>, <<"S","e","t">> >>,
     << <<"S","M","A","L","L","I","N","T">>, <<"S","m","a","l","l","I","n","t">> >>,
     << <<"T","E","X","T">>, <<"T","e","x","t">> >>,
     << <<"T","I","M","E">>, <<"T","i","m","e">> >>,
     << <<"T","I","M","E","S","T","A","M","P">>, <<"T","i","m","e","s","t","a","m","p">> >>,
     << <<"T","I","N","Y","B","L","O","B">>, <<"T","i","n","y","B","l","o","b">> >>,
     << <<"T","I","N","Y","I","N","T">>, <<"T","i","n","y","I","n","t">> >>,
     << <<"T","I","N","Y","T","E","X","T">>, <<"T","i","n","y","T","e","x","t">> >>,
     << <<"V","A","R","B","I","N","A","R","Y">>, <<"V","a","r","b","i","n","a","r","y">> >>,
     << <<"V","A","R","C","H","A","R">>, <<"V","a","r","C","h","a","r">> >>,
     << <<"Y","E","A","R">>, <<"Y","e","a","r">> >> >>

\* Mutant of ColumnTypeFrom: the literal is matched case-sensitively.
ColumnTypeFromCaseSensitive(value) ==
  LET key  == Trim(value)
      hits == {i \in 1..Len(ColumnTypeArms) : ColumnTypeArms[i][1] = key}
  IN IF hits = {}
       THEN Panic("not implemented")
       ELSE Return(ColumnTypeArms[Min(hits)][2])

\* impl From<String> for ColumnType
ColumnTypeFrom(value) ==
  LET key  == ToUppercase(Trim(value))
      hits == {i \in 1..Len(ColumnTypeArms) : ColumnTypeArms[i][1] = key}
  IN IF hits = {}
       THEN Panic("not implemented")
       ELSE Return(ColumnTypeArms[Min(hits)][2])

\* The match arms of t2t, in source order: << literals, Rust type >>.
T2TArms ==
  << << {<<"B","O","O","L">>}, "bool" >>,
     << {<<"C","H","A","R">>}, "i8" >>,
     << {<<"S","M","A","L","L","I","N","T">>, <<"S","M","A","L","L","S","E","R","I","A","L">>, <<"I","N","T","2">>}, "i16" >>,
     << {<<"I","N","T">>, <<"S","E","R","I","A","L">>, <<"I","N","T","4">>}, "i32" >>,
     << {<<"B","I","G","I","N","T">>, <<"B","I","G","S","E","R","I","A","L">>, <<"I","N","T","8">>}, "i64" >>,
     << {<<"R","E","A","L">>, <<"F","L","O","A","T","4">>}, "f32" >>,
     << {<<"D","O","U","B","L","E"," ","P","R","E","C","I","S","I","O","N">>, <<"F","L","O","A","T","8">>}, "f64" >>,
     << {<<"B","Y","T","E","A">>}, "Vec<u8>" >>,
     << {<<"V","O","I","D">>}, "()" >>,
     << {<<"I","N","T","E","R","V","A","L">>}, "sqlx_postgres::types::PgInterval" >>,
     << {<<"I","N","T","8","R","A","N","G","E">>, <<"I","N","T","4","R","A","N","G","E">>, <<"T","S","R","A","N","G","E">>, <<"T","S","T","Z","R","A","N","G","E">>, <<"D","A","T","E","R","A","N","G","E">>, <<"N","U","M","R","A","N","G","E">>}, "sqlx_postgres::types::PgRange<T> " >>,
     << {<<"M","O","N","E","Y">>}, "sqlx_postgres::types::PgMoney" >>,
     << {<<"L","T","R","E","E">>}, "sqlx_postgres::types::PgLTree" >>,
     << {<<"L","Q","U","E","R","Y">>}, "sqlx_postgres::types::PgLQuery" >>,
     << {<<"Y","E","A","R">>}, "time::Date" >>,
     << {<<"D","A","T","E">>}, "time::Date" >>,
     << {<<"T","I","M","E">>}, "time::Time" >>,
     << {<<"T","I","M","E","S","T","A","M","P">>}, "time::PrimitiveDateTime" >>,
     << {<<"T","I","M","E","S","T","A","M","P","T","Z">>}, "time::OffsetDateTime" >>,
     << {<<"T","I","M","E","T","Z">>}, "sqlx_postgres::types::PgTimeTz" >>,
     << {<<"N","U","M","E","R","I","C">>}, "bigdecimal::BigDecimal" >>,
     << {<<"J","S","O","N">>, <<"J","S","O","N","B">>}, "serde_json:JsonValue" >>,
     << {<<"U","U","I","D">>}, "uuid::Uuid" >>,
     << {<<"I","N","E","T">>, <<"C","I","D","R">>}, "std::net::IpAddr" >>,
     << {<<"M","A","C","A","D","D","R">>}, "mac_address::MacAddress" >>,
     << {<<"B","I","T">>, <<"V","A","R","B","I","T">>}, "bit_vec::BitVec" >> >>

\* postgres::t2t
T2T(ty) ==
  LET key  == ToUppercase(ty)
      hits == {i \in 1..Len(T2TArms) : key \in T2TArms[i][1]}
  IN IF hits = {} THEN "String" ELSE T2TArms[Min(hits)][2]

(***************************************************************************)
(* The engine's catalog, as the Postgres adapter's two queries see it.     *)
(***************************************************************************)
\* Option<T>: None is the empty sequence, Some(x) the one-element sequence.
None == <<>>

Some(x) == <<x>>

\* current_database() and current_schema() of the connection.
CurrentDatabase == "app"

CurrentSchema == "public"

\* The relations a catalog may hold.  Two of them share a name in different
\* schemas.
RelationSlots ==
  << [nspname |-> "public", relname |-> "orders", comment |-> "customer orders"],
     [nspname |-> "public", relname |-> "users",  comment |-> "application users"],
     [nspname |-> "audit",  relname |-> "users",  comment |-> "audited users"] >>

\* Column p of every relation (a relation with n columns has the first n).
ColumnDefs ==
  << [column_name |-> "id", udt_name |-> <<"i","n","t","4">>, is_nullable |-> "NO",
      column_default |-> Some("nextval('id_seq')"), character_maximum_length |-> None],
     [column_name |-> "name", udt_name |-> <<"v","a","r","c","h","a","r">>, is_nullable |-> "YES",
      column_default |-> None, character_maximum_length |-> Some(255)],
     [column_name |-> "created_at", udt_name |-> <<"t","i","m","e","s","t","a","m","p","t","z">>, is_nullable |-> "NO",
      column_default |-> Some("now()"), character_maximum_length |-> None],
     [column_name |-> "uid", udt_name |-> <<"u","u","i","d">>, is_nullable |-> "YES",
      column_default |-> None, character_maximum_length |-> None] >>

Absent == [present |-> FALSE]

RelationShapes ==
  {Absent} \cup
  {[present |-> TRUE, ncols |-> n, described |-> d] : n \in 0..MaxCols, d \in BOOLEAN}

\* pg_class rows of the catalog with the given shape, in heap order.
RECURSIVE PgClassOf(_, _)
PgClassOf(shape, i) ==
  IF i > Len(RelationSlots) THEN <<>>
  ELSE (IF shape[i].present
          THEN << [oid |-> 16384 + i,
                   relname |-> RelationSlots[i].relname,
                   nspname |-> RelationSlots[i].nspname,
                   ncols |-> shape[i].ncols,
                   description |-> IF shape[i].described
                                     THEN Some(RelationSlots[i].comment)
                                     ELSE None] >>
          ELSE <<>>) \o PgClassOf(shape, i + 1)

Catalogs ==
  {PgClassOf(shape, 1) : shape \in [1..Len(RelationSlots) -> RelationShapes]}

\* Concatenation of f[1], ..., f[n] for a sequence of sequences.
RECURSIVE Flatten(_)
Flatten(ss) == IF ss = <<>> THEN <<>> ELSE Head(ss) \o Flatten(Tail(ss))

\* information_schema.tables of the connected database.
InformationSchemaTables(cat) ==
  [i \in 1..Len(cat) |->
     [table_catalog |-> CurrentDatabase,
      table_schema  |-> cat[i].nspname,
      table_name    |-> cat[i].relname]]

\* information_schema.columns of the connected database.  Without ORDER BY
\* the engine returns rows in no particular order; the heap order here is
\* by relation and then by descending ordinal position.
InformationSchemaColumns(cat) ==
  Flatten([i \in 1..Len(cat) |->
     [k \in 1..cat[i].ncols |->
        LET p == cat[i].ncols + 1 - k IN
        [table_catalog |-> CurrentDatabase,
         table_schema  |-> cat[i].nspname,
         table_name    |-> cat[i].relname,
         column_name   |-> ColumnDefs[p].column_name,
         ordinal_position |-> p,
         column_default |-> ColumnDefs[p].column_default,
         is_nullable   |-> ColumnDefs[p].is_nullable,
         udt_name      |-> ColumnDefs[p].udt_name,
         character_maximum_length |-> ColumnDefs[p].character_maximum_length]]])

\* pg_description: table comments have objsubid 0.
PgDescription(cat) ==
  {[objoid |-> cat[i].oid, objsubid |-> 0, description |-> cat[i].description[1]] :
     i \in {j \in 1..Len(cat) : cat[j].description # None}}

SetToSeq(S) ==
  CHOOSE f \in [1..Cardinality(S) -> S] : \A x \in S : \E i \in DOMAIN f : f[i] = x

\* LEFT JOIN pg_description d ON d.objoid = C.oid AND d.objsubid = subid:
\* the matching descriptions, or one NULL when there is none.
LeftJoinDescription(cat, oid, subid) ==
  LET ds == {d \in PgDescription(cat) : d.objoid = oid /\ d.objsubid = subid} IN
    IF ds = {} THEN << None >>
    ELSE [i \in 1..Cardinality(ds) |-> Some(SetToSeq(ds)[i].description)]

\* The value of a WHERE-clause operand: a positional placeholder or a call.
Operand(term, binds) ==
  CASE term = "current_database()" -> CurrentDatabase
    [] term = "current_schema()"   -> CurrentSchema
    [] term = "$1" -> binds[1]
    [] term = "$2" -> binds[2]
    [] term = "$3" -> binds[3]

(***************************************************************************)
(* Postgres adapter.                                                       *)
(***************************************************************************)
\* Mutant of TablesWhere: the database is always compared with $1.
TablesWhereAlwaysBound(database) ==
  [table_catalog |-> "$1", table_schema |-> "$2"]

\* The WHERE clause PostgresMetadata::tables builds: the operand each
\* filtered column is compared with.
TablesWhere(database) ==
  [table_catalog |-> IF database = "" THEN "current_database()" ELSE "$1",
   table_schema  |-> "$2"]

\* The values PostgresMetadata::tables binds, in order.
TablesBinds(database, schema) == << database, schema >>

\* The rows of the query of PostgresMetadata::tables:
\* information_schema.tables tb JOIN pg_class C ON C.relname = tb.table_name
\* LEFT JOIN pg_description d ON d.objoid = C.oid AND d.objsubid = 0.
TablesRows(cat, database, schema) ==
  LET where  == TablesWhere(database)
      binds  == TablesBinds(database, schema)
      tb     == InformationSchemaTables(cat)
      joined ==
        Flatten([i \in 1..Len(tb) |->
          Flatten([j \in 1..Len(cat) |->
            IF cat[j].relname = tb[i].table_name
              THEN LET ds == LeftJoinDescription(cat, cat[j].oid, 0) IN
                   [k \in 1..Len(ds) |->
                      [table_catalog |-> tb[i].table_catalog,
                       table_schema  |-> tb[i].table_schema,
                       table_name    |-> tb[i].table_name,
                       description   |-> ds[k]]]
              ELSE <<>>])])
      Keep(r) ==
        /\ r.table_catalog = Operand(where.table_catalog, binds)
        /\ r.table_schema = Operand(where.table_schema, binds)
  IN SelectSeq(joined, Keep)

\* impl From<Table> for super::Table
TableFrom(t) ==
  [schema  |-> t.table_schema,
   name    |-> t.table_name,
   comment |-> IF t.description = None THEN t.table_name ELSE t.description[1]]

\* PostgresMetadata::tables, when the query succeeds.
PostgresTables(cat, database, schema) ==
  LET rows == TablesRows(cat, database, schema) IN
    [i \in 1..Len(rows) |-> TableFrom(rows[i])]

\* Mutant of ColumnsWhere: the schema is always compared with $2.
ColumnsWhereSchemaAlwaysBound(database, schema) ==
  [table_catalog |-> IF database = "" THEN "current_database()" ELSE "$1",
   table_schema  |-> "$2",
   table_name    |-> "$3"]

\* The WHERE clause PostgresMetadata::columns builds.
ColumnsWhere(database, schema) ==
  [table_catalog |-> IF database = "" THEN "current_database()" ELSE "$1",
   table_schema  |-> IF schema = "" THEN "current_schema()" ELSE "$2",
   table_name    |-> "$3"]

\* The values PostgresMetadata::columns binds, in order.
ColumnsBinds(database, schema, table_name) == << database, schema, table_name >>

\* Stable insertion of row r into a sequence sorted by ordinal_position.
RECURSIVE InsertByOrdinal(_, _)
InsertByOrdinal(r, sorted) ==
  IF sorted = <<>> THEN << r >>
  ELSE IF r.ordinal_position < Head(sorted).ordinal_position
    THEN << r >> \o sorted
    ELSE << Head(sorted) >> \o InsertByOrdinal(r, Tail(sorted))

\* ORDER BY col.TABLE_NAME, col.ordinal_position.  The WHERE clause keeps
\* one table_name, so the order is decided by ordinal_position.
RECURSIVE OrderByOrdinal(_)
OrderByOrdinal(rows) ==
  IF rows = <<>> THEN <<>>
  ELSE InsertByOrdinal(rows[Len(rows)], OrderByOrdinal(SubSeq(rows, 1, Len(rows) - 1)))

\* The rows of the query of PostgresMetadata::columns:
\* information_schema.columns col JOIN pg_class C ON C.relname = col.table_name
\* LEFT JOIN pg_description d ON d.objoid = C.oid AND d.objsubid = col.ordinal_position,
\* decoded into the adapter's Column rows (udt_name AS data_type).
ColumnsRows(cat, database, schema, table_name) ==
  LET where  == ColumnsWhere(database, schema)
      binds  == ColumnsBinds(database, schema, table_name)
      col    == InformationSchemaColumns(cat)
      joined ==
        Flatten([i \in 1..Len(col) |->
          Flatten([j \in 1..Len(cat) |->
            IF cat[j].relname = col[i].table_name
              THEN LET ds == LeftJoinDescription(cat, cat[j].oid, col[i].ordinal_position) IN
                   [k \in 1..Len(ds) |->
                      [table_catalog |-> col[i].table_catalog,
                       table_schema  |-> col[i].table_schema,
                       table_name    |-> col[i].table_name,
                       column_name   |-> col[i].column_name,
                       ordinal_position |-> col[i].ordinal_position,
                       column_default |-> col[i].column_default,
                       is_nullable   |-> col[i].is_nullable,
                       data_type     |-> col[i].udt_name,
                       character_maximum_length |-> col[i].character_maximum_length]]
              ELSE <<>>])])
      Keep(r) ==
        /\ r.table_catalog = Operand(where.table_catalog, binds)
        /\ r.table_schema = Operand(where.table_schema, binds)
        /\ r.table_name = Operand(where.table_name, binds)
  IN OrderByOrdinal(SelectSeq(joined, Keep))

\* impl From<Column> for super::Column: the fields not listed in the
\* struct literal take Default::default().
ColumnFrom(c) ==
  LET ty == T2T(ToUppercase(c.data_type)) IN
    [database       |-> c.table_catalog,
     schema         |-> c.table_schema,
     table_name     |-> c.table_name,
     name           |-> c.column_name,
     type           |-> None,
     length         |-> c.character_maximum_length,
     scale          |-> None,
     default        |-> c.column_default,
     enum_values    |-> None,
     comment        |-> "",
     is_null        |-> FALSE,
     is_auto_incr   |-> FALSE,
     is_unique      |-> FALSE,
     is_primary_key |-> FALSE,
     is_unsigned    |-> FALSE,
     rust_type      |-> ""]

\* PostgresMetadata::columns, when the query succeeds.
PostgresColumns(cat, database, schema, table_name) ==
  LET rows == ColumnsRows(cat, database, schema, table_name) IN
    [i \in 1..Len(rows) |-> ColumnFrom(rows[i])]

\* todo!() in databases, schemas, indexs and create_table_sql.
PostgresTodo == Panic("not yet implemented")

\* How a round trip to the pool may end: with rows, or with a sqlx::Error
\* (the pool could not hand out a connection, or the engine rejected the query).
QueryOutcomes == {"rows", "PoolTimedOut", "Database"}

\* Mutant of QueryResult: a failed query is taken for one without rows.
QueryResultSwallowed(outcome, rows) ==
  IF outcome = "rows" THEN Ok(rows) ELSE Ok(<<>>)

\* fetch_all(..).await? : a sqlx::Error becomes Error::Sql through From.
QueryResult(outcome, rows) ==
  IF outcome = "rows" THEN Ok(rows) ELSE Err(ErrorSql(outcome))

\* The round trip PostgresMetadata::tables makes: the statement's WHERE
\* clause, the values bound to it and how it ended.
TablesQuery(database, schema, outcome) ==
  [op |-> "tables", sql |-> TablesWhere(database),
   binds |-> TablesBinds(database, schema), outcome |-> outcome]

\* The round trip PostgresMetadata::columns makes.
ColumnsQuery(database, schema, table_name, outcome) ==
  [op |-> "columns", sql |-> ColumnsWhere(database, schema),
   binds |-> ColumnsBinds(database, schema, table_name), outcome |-> outcome]

(***************************************************************************)
(* Provider selection and the schema aggregator.                           *)
(***************************************************************************)
\* database_metadata: an unresolved driver ends the process with status 1
\* (unwrap_or_else + std::process::exit); a pool that cannot connect makes
\* unwrap() panic; otherwise the adapter of the driver is returned.
DatabaseMetadata(url, reachable) ==
  LET driver == DriverTryFrom(url) IN
    IF driver.kind = "Err" THEN Exit(1)
    ELSE IF reachable THEN Return([adapter |-> driver.value])
    ELSE Panic("called Result::unwrap() on an Err value")

\* The I/O database_metadata performs: none unless the driver resolved.
DatabaseMetadataIo(url) ==
  IF DriverTryFrom(url).kind = "Ok" THEN << [op |-> "connect"] >> ELSE <<>>

\* Mutant of FetchTargets: the allowlist is ignored.
FetchTargetsIgnoreAllowlist(table_names, tbls) ==
  [i \in 1..Len(tbls) |-> tbls[i].name]

\* Mutant of FetchTargets: the last discovered table is skipped.
FetchTargetsSkipLast(table_names, tbls) ==
  IF table_names = <<>>
    THEN [i \in 1..(Len(tbls) - 1) |-> tbls[i].name]
    ELSE table_names

\* Mutant of FetchTargets: the allowlisted names are visited in the order
\* the tables were discovered.
FetchTargetsDiscoveryOrder(table_names, tbls) ==
  LET names == [i \in 1..Len(tbls) |-> tbls[i].name]
      Listed(n) == \E i \in DOMAIN table_names : table_names[i] = n
  IN IF table_names = <<>> THEN names ELSE SelectSeq(names, Listed)

\* The table names fetch_table_column asks columns for: the allowlist, or
\* the discovered tables when the allowlist is empty.
FetchTargets(table_names, tbls) ==
  IF table_names = <<>> THEN [i \in 1..Len(tbls) |-> tbls[i].name] ELSE table_names

(***************************************************************************)
(* Code generator (reverse_cli): main, Generator::run, prepare, render,    *)
(* preview, write and write_file.  A path is the sequence of its           *)
(* components; the file system is the texts of the files (files) and the   *)
(* directories (dirs).                                                     *)
(***************************************************************************)
\* anyhow::Error made from the failure `cause`.
AnyhowError(cause) == [variant |-> "anyhow", source |-> cause]

\* Ok(())
Unit == <<>>

\* How the file system answers the requests of one write: every request
\* succeeds ("ok"), or the request `at` fails; create_dir_all fails after it
\* has made `made` of the directories it has to make, and write_all fails
\* before it has written a byte or after it has written a part of the text.
Io(at, made) == [at |-> at, made |-> made]

\* A tera context without entries.
NoCtx ==
  [driver |-> "", driver_url |-> <<>>, table_names |-> {}, table |-> None,
   columns |-> <<>>, has_columns |-> FALSE]

\* The text tera renders from `template` with `ctx`.
Text(template, ctx) == [template |-> template, ctx |-> ctx, whole |-> TRUE]

\* The file File::create leaves: no bytes.
Truncated == Text("", NoCtx)

\* What a write_all that fails midway leaves: a part of the text.
Partial(text) == [text EXCEPT !.whole = FALSE]

\* No template is embedded.
NoTemplates == <<>>

\* Generator::render(path, tera, ctx) with the embedded templates tpls:
\* Templates::get(path) finds no file, str::from_utf8(..).unwrap() panics on
\* a template that is not UTF-8, render_str fails, or the text.
Render(tpls, path, ctx) ==
  IF path \notin DOMAIN tpls
    THEN Err(AnyhowError("template file does not exist"))
    ELSE IF tpls[path] = "not_utf8"
      THEN Panic("called Result::unwrap() on an Err value")
    ELSE IF tpls[path] = "invalid"
      THEN Err(AnyhowError("template rendering failed"))
      ELSE Ok(Text(path, ctx))

\* Path::parent
Parent(path) == SubSeq(path, 1, Len(path) - 1)

\* The directories on the way to `dir`, `dir` included.
Prefixes(dir) == {SubSeq(dir, 1, k) : k \in 1..Len(dir)}

\* Path::exists: a file or a directory is at the path.
Exists(fs, ds, path) == path \in DOMAIN fs \/ path \in ds

\* How the file system may answer write_file(path, ..): create_dir_all can
\* fail at each of the directories on the way to the parent of path.
IoOutcomes(path) ==
  {Io(at, 0) : at \in {"ok", "create", "write_all", "write_all_partial"}}
    \cup {Io("create_dir_all", made) : made \in 0..(Len(Parent(path)) - 1)}

\* fs::create_dir_all(dir): the directories afterwards and the result.  An
\* empty path and an existing directory succeed; a file on the way fails;
\* the missing directories are made from the outermost inwards, and a
\* failure leaves the ones made before it.
CreateDirAll(fs, ds, dir, io) ==
  LET missing == Prefixes(dir) \ ds
      first   == Len(dir) - Cardinality(missing) + 1
  IN
  IF missing = {} THEN [dirs |-> ds, result |-> Ok(Unit)]
  ELSE IF \E p \in missing : p \in DOMAIN fs
    THEN [dirs |-> ds, result |-> Err(AnyhowError("create_dir_all"))]
  ELSE IF io.at = "create_dir_all" /\ io.made < Cardinality(missing)
    THEN [dirs |-> ds \cup {p \in missing : Len(p) < first + io.made},
          result |-> Err(AnyhowError("create_dir_all"))]
  ELSE [dirs |-> ds \cup missing, result |-> Ok(Unit)]

\* fs::File::create(path): fails on a directory and in a directory that
\* does not exist; otherwise the file is created or emptied.
FileCreate(fs, ds, path, io) ==
  IF \/ path \in ds
     \/ Parent(path) # <<>> /\ Parent(path) \notin ds
     \/ io.at = "create"
    THEN [files |-> fs, result |-> Err(AnyhowError("create"))]
    ELSE [files |-> [p \in DOMAIN fs \cup {path} |->
                       IF p = path THEN Truncated ELSE fs[p]],
          result |-> Ok(Unit)]

\* tf.write_all(contents) to the file just created at path.
WriteAll(fs, path, contents, io) ==
  CASE io.at = "write_all" ->
         [files |-> fs, result |-> Err(AnyhowError("write_all"))]
    [] io.at = "write_all_partial" ->
         [files |-> [fs EXCEPT ![path] = Partial(contents)],
          result |-> Err(AnyhowError("write_all"))]
    [] OTHER ->
         [files |-> [fs EXCEPT ![path] = contents], result |-> Ok(Unit)]

\* Mutant of WriteFile: the file is created whatever override is.
WriteFileOverwrites(fs, ds, path, contents, override, io) ==
  LET made    == CreateDirAll(fs, ds, Parent(path), io)
      created == FileCreate(fs, made.dirs, path, io)
      written == WriteAll(created.files, path, contents, io)
  IN IF made.result.kind = "Err"
       THEN [files |-> fs, dirs |-> made.dirs, result |-> made.result]
       ELSE IF created.result.kind = "Err"
         THEN [files |-> fs, dirs |-> made.dirs, result |-> created.result]
         ELSE [files |-> written.files, dirs |-> made.dirs,
               result |-> written.result]

\* Generator::write_file(path, contents, override) on the files fs and the
\* directories ds: the file system it leaves and what it returns.
WriteFile(fs, ds, path, contents, override, io) ==
  LET made    == CreateDirAll(fs, ds, Parent(path), io)
      exists  == Exists(fs, made.dirs, path)
      created == FileCreate(fs, made.dirs, path, io)
      written == WriteAll(created.files, path, contents, io)
  IN IF made.result.kind = "Err"
       THEN [files |-> fs, dirs |-> made.dirs, result |-> made.result]
       ELSE IF ~exists \/ (exists /\ override)
         THEN IF created.result.kind = "Err"
                THEN [files |-> fs, dirs |-> made.dirs, result |-> created.result]
                ELSE [files |-> written.files, dirs |-> made.dirs,
                      result |-> written.result]
         ELSE [files |-> fs, dirs |-> made.dirs, result |-> Ok(Unit)]

\* The record of one invocation of write_file: its arguments, whether
\* something was at the path, the text the file had (None when no file was
\* there) and what the call returned.
Written(fs, ds, path, contents, override, r) ==
  [path |-> path, contents |-> contents, override |-> override,
   existed |-> Exists(fs, ds, path),
   prev |-> IF path \in DOMAIN fs THEN Some(fs[path]) ELSE None,
   result |-> r]

\* include_bytes!("../generator.toml")
GeneratorToml == Text("generator.toml", NoCtx)

\* Commands::Template of main on config_path: the files afterwards.
Template(fs, ds, config_path, io) ==
  LET created == FileCreate(fs, ds, config_path, io) IN
  IF Exists(fs, ds, config_path) \/ created.result.kind = "Err"
    THEN fs
    ELSE WriteAll(created.files, config_path, GeneratorToml, io).files

\* The keys of table_map: the names of the discovered tables.
TableMapKeys(tbls) == {tbls[i].name : i \in 1..Len(tbls)}

\* table_map[name]: collecting into a HashMap keeps the last table of a name.
TableMapGet(tbls, name) ==
  LET at == {i \in 1..Len(tbls) : tbls[i].name = name} IN
    tbls[CHOOSE i \in at : \A j \in at : j <= i]

\* table_column_map[name]: the columns whose table_name is `name`.
TableColumnMapGet(cols, name) ==
  LET OfTable(c) == c.table_name = name IN SelectSeq(cols, OfTable)

\* The context preview creates before it renders anything.
BaseCtx(config, tbls) ==
  [driver      |-> DriverTryFrom(config.database_url).value,
   driver_url  |-> config.database_url,
   table_names |-> {TableMapGet(tbls, n) : n \in TableMapKeys(tbls)},
   table       |-> None,
   columns     |-> <<>>,
   has_columns |-> FALSE]

\* The context of the model file of table `name`.
TableCtx(config, tbls, cols, name) ==
  [BaseCtx(config, tbls) EXCEPT
     !.table = Some(TableMapGet(tbls, name)),
     !.columns = TableColumnMapGet(cols, name),
     !.has_columns = TableColumnMapGet(cols, name) # <<>>]

\* Language::Rust of preview: error.rs and mod.rs when configured, then one
\* entry per key of table_map; the first rendering that fails or panics
\* ends it.
PreviewRust(tpls, config, tbls, cols) ==
  LET base    == BaseCtx(config, tbls)
      error   == Render(tpls, "rust/error.html", base)
      mod     == Render(tpls, "rust/mod.html", base)
      model   == Render(tpls, "rust/model.html", base)
      keys    == (IF config.gen_error THEN {"error.rs"} ELSE {})
                   \cup (IF config.gen_mod THEN {"mod.rs"} ELSE {})
                   \cup TableMapKeys(tbls)
  IN IF config.gen_error /\ error.kind # "Ok" THEN error
     ELSE IF config.gen_mod /\ mod.kind # "Ok" THEN mod
     ELSE IF config.gen_entity /\ TableMapKeys(tbls) # {} /\ model.kind # "Ok"
       THEN model
     ELSE Ok([k \in keys |->
                IF k \in TableMapKeys(tbls)
                  THEN [f \in (IF config.gen_entity THEN {k \o ".rs"} ELSE {}) |->
                          Render(tpls, "rust/model.html",
                                 TableCtx(config, tbls, cols, k)).value]
                  ELSE IF k = "error.rs"
                    THEN [f \in {"error.rs"} |-> error.value]
                    ELSE [f \in {"mod.rs"} |-> mod.value]])

\* The files of one table in Language::Java, in the order preview renders
\* them: switch, file name, template.
JavaFiles ==
  << <<"gen_entity", "entity.java", "java/entity.html">>,
     <<"gen_mapper", "mapper.java", "java/mapper.html">>,
     <<"gen_mapper_xml", "mapper.xml", "java/mapperXml.html">>,
     <<"gen_service", "service.java", "java/service.html">>,
     <<"gen_controller", "controller.java", "java/controller.html">> >>

\* Language::Java of preview: one entry per name of config.table_names; the
\* first rendering that fails or panics ends it.
PreviewJava(tpls, config, tbls) ==
  LET base   == BaseCtx(config, tbls)
      on     == {i \in 1..Len(JavaFiles) : config[JavaFiles[i][1]]}
      Out(i) == Render(tpls, JavaFiles[i][3], base)
      failed == {i \in on : Out(i).kind # "Ok"}
      At(f)  == CHOOSE i \in on : JavaFiles[i][2] = f
  IN IF config.table_names # <<>> /\ failed # {}
       THEN Out(CHOOSE i \in failed : \A j \in failed : i <= j)
       ELSE Ok([k \in {config.table_names[i] : i \in 1..Len(config.table_names)} |->
                  [f \in {JavaFiles[i][2] : i \in on} |-> Out(At(f)).value]])

\* Generator::preview(config, tables, tables_columns)
Preview(tpls, config, tbls, cols) ==
  IF DriverTryFrom(config.database_url).kind = "Err"
    THEN Err(AnyhowError("unsupported driver type"))
    ELSE IF config.language = "Rust"
      THEN PreviewRust(tpls, config, tbls, cols)
      ELSE PreviewJava(tpls, config, tbls)

\* The (key, file name) pairs of a preview map.
Entries(preview) ==
  UNION {{<<k, f>> : f \in DOMAIN preview[k]} : k \in DOMAIN preview}

\* The (key, file name) pairs Generator::write gives write_file: the file
\* error.rs of key error.rs and the file mod.rs of key mod.rs when they are
\* configured and in the map, and every file of every other key.
WriteEntries(config, preview) ==
  {e \in Entries(preview) :
     \/ config.gen_error /\ e = <<"error.rs", "error.rs">>
     \/ config.gen_mod /\ e = <<"mod.rs", "mod.rs">>
     \/ e[1] \notin {"error.rs", "mod.rs"}}

\* Generator::write writes error.rs first, mod.rs second and then the files
\* of the other keys in the iteration order of the HashMap.
Stage(k) == IF k = "error.rs" THEN 1 ELSE IF k = "mod.rs" THEN 2 ELSE 3

\* The path Generator::write gives write_file for file f of key k:
\* "{path}/error.rs", "{path}/mod.rs" and "{path}{key}/{file_name}".
PathOf(config, k, f) ==
  IF k \in {"error.rs", "mod.rs"}
    THEN << config.path, k >>
    ELSE << config.path \o k, f >>

\* The names Generator::prepare asks columns for.
PrepareTargets(config, tbls) ==
  IF config.table_names = <<>>
    THEN [i \in 1..Len(tbls) |-> tbls[i].name]
    ELSE config.table_names

\* todo!() of Language::Java in Generator::write.
JavaTodo == Panic("not yet implemented")

(***************************************************************************)
(* Operations outstanding concurrently on one provider.  A task is one     *)
(* future: tables and columns borrow the provider's pool, while            *)
(* fetch_table_column connects a pool of its own.                          *)
(***************************************************************************)
\* The arguments of a task's operation; an argument the operation does not
\* take is empty.
TaskCall(op, database, schema, table_name, url, table_names) ==
  [op |-> op, database |-> database, schema |-> schema,
   table_name |-> table_name, url |-> url, table_names |-> table_names]

\* The statement a task sends next: that of tables, or that of columns for
\* the next name fetch_table_column visits.
Statement(task) ==
  CASE task.call.op = "tables" ->
         [op |-> "tables", database |-> task.call.database,
          schema |-> task.call.schema, table_name |-> ""]
    [] task.call.op = "columns" ->
         [op |-> "columns", database |-> task.call.database,
          schema |-> task.call.schema, table_name |-> task.call.table_name]
    [] task.call.op = "fetch_table_column" /\ task.stage = "tables" ->
         [op |-> "tables", database |-> "", schema |-> task.call.schema,
          table_name |-> ""]
    [] task.call.op = "fetch_table_column" /\ task.stage = "columns" ->
         [op |-> "columns", database |-> "", schema |-> task.call.schema,
          table_name |->
            FetchTargets(task.call.table_names, task.tables)[Len(task.columns) + 1]]

\* The entities the adapter decodes from the rows of a statement.
Response(cat, st) ==
  IF st.op = "tables"
    THEN PostgresTables(cat, st.database, st.schema)
    ELSE PostgresColumns(cat, st.database, st.schema, st.table_name)

\* The statement whose rows task i receives: the one it sent itself, on the
\* connection it acquired.
Issued(ts, i) == Statement(ts[i])

\* A task when its operation is invoked: tables and columns go on to
\* acquire a connection of the provider's pool; fetch_table_column resolves
\* the driver, which ends the process when it fails, and then waits in
\* PgPool::connect(url).await.
TaskStart(taskcall) ==
  LET driver == IF taskcall.op = "fetch_table_column"
                  THEN DriverTryFrom(taskcall.url)
                  ELSE Ok("Postgres")
  IN [call    |-> taskcall,
      pool    |-> IF taskcall.op = "fetch_table_column" THEN "own" ELSE "provider",
      pc      |-> IF driver.kind = "Err" THEN "done"
                  ELSE IF taskcall.op = "fetch_table_column" THEN "connect"
                  ELSE "acquire",
      stage   |-> IF taskcall.op = "columns" THEN "columns" ELSE "tables",
      tables  |-> <<>>,
      columns |-> <<>>,
      result  |-> IF driver.kind = "Err"
                    THEN DatabaseMetadata(taskcall.url, FALSE)
                    ELSE NoResult,
      rank    |-> 0]

\* A task that has ended with result r as the rank-th of the tasks.
TaskDone(task, r, rank) ==
  [task EXCEPT !.pc = "done", !.result = r, !.tables = <<>>, !.columns = <<>>,
               !.rank = rank]

\* A task after PgPool::connect(url).await of database_metadata has ended:
\* the adapter is returned and the task goes on to its first statement, or
\* unwrap() panics and the task ends as the rank-th of the tasks.
TaskConnected(task, reachable, rank) ==
  LET metadata == DatabaseMetadata(task.call.url, reachable) IN
    IF metadata.kind = "return"
      THEN [task EXCEPT !.pc = "acquire"]
      ELSE TaskDone(task, metadata, rank)

\* A task after its statement has ended with r: tables and columns return
\* r; fetch_table_column returns an error, keeps the tables and goes on to
\* the columns, or returns Ok after the last of them.
TaskAdvance(task, r, rank) ==
  IF r.kind = "Err" \/ task.call.op # "fetch_table_column"
    THEN TaskDone(task, r, rank)
    ELSE
      LET tbls    == IF task.stage = "tables" THEN r.value ELSE task.tables
          cols    == IF task.stage = "tables" THEN <<>>
                     ELSE Append(task.columns, r.value)
          targets == FetchTargets(task.call.table_names, tbls)
      IN IF Len(cols) = Len(targets)
           THEN TaskDone(task, Ok(<< tbls, Flatten(cols) >>), rank)
           ELSE [task EXCEPT !.pc = "acquire", !.stage = "columns",
                             !.tables = tbls, !.columns = cols]

(***************************************************************************)
(* Inputs.                                                                 *)
(***************************************************************************)
\* s with the letters at the positions in m in upper case, the others in
\* lower case.
Recase(s, m) ==
  [i \in 1..Len(s) |-> IF i \in m THEN ToUpperChar(s[i]) ELSE ToLowerChar(s[i])]

CaseVariants(s) ==
  {Recase(s, m) : m \in SUBSET (1..(IF Len(s) < CaseWidth THEN Len(s) ELSE CaseWidth))}
    \cup {Recase(s, 1..Len(s))}

LeadPads == { <<>>, <<" ">>, <<"\t", "\n">>, <<"\r">>, <<"\f", VerticalTab>> }

TrailPads == { <<>>, <<" ">>, <<"\r", "\n">> }

Padded(S) == {l \o s \o r : l \in LeadPads, s \in S, r \in TrailPads}

UrlStems ==
  { <<"m","y","s","q","l">>, <<"p","o","s","t","g","r","e","s">>, <<"s","q","l","i","t","e">>,
    <<"m","y","s","q">>, <<"p","o","s","t","g","r","e">>, <<"s","q","l","i","t">>,
    <<"f","t","p">>, <<>>, <<"m","y"," ","s","q","l">>, <<"x","s","q","l","i","t","e">>, <<"p","g","s","q","l">> }

UrlTails == { <<>>, <<":","/","/","h","/","d">>, <<"q","l">> }

Urls ==
  Padded({v \o tl : v \in UNION {CaseVariants(s) : s \in UrlStems}, tl \in UrlTails})

\* Native type names outside both the ColumnType table and the t2t table.
UnmappedTypes == { <<"x","m","l">>, <<"h","s","t","o","r","e">>, <<"i","n","t","(","1","1",")">>, <<"b","i","g"," ","i","n","t">>, <<>> }

\* Native type names t2t's doc comment maps to String.
T2TDocumentedString ==
  { <<"V","A","R","C","H","A","R">>, <<"C","H","A","R","(","N",")">>,
    <<"T","E","X","T">>, <<"N","A","M","E">> }

ColumnTypeLiterals == {ColumnTypeArms[i][1] : i \in 1..Len(ColumnTypeArms)}

T2TLiterals == UNION {T2TArms[i][1] : i \in 1..Len(T2TArms)}

TypeStems ==
  ColumnTypeLiterals \cup T2TLiterals \cup T2TDocumentedString \cup UnmappedTypes

NativeTypes == Padded(UNION {CaseVariants(s) : s \in TypeStems})

PostgresUrl == <<"p","o","s","t","g","r","e","s",":","/","/","h","/","a","p","p">>

MysqlUrl == <<"m","y","s","q","l",":","/","/","h","/","a","p","p">>

FtpUrl == <<"f","t","p",":","/","/","h","o","s","t","/","d","b">>

\* URLs given to the aggregator: the Postgres adapter is the one modelled.
FetchUrls == { PostgresUrl, FtpUrl }

MetadataUrls == { PostgresUrl, MysqlUrl, FtpUrl }

Databases == { "", CurrentDatabase, "other" }

Schemas == { "", "public", "audit" }

TableNames == { "orders", "users", "ghost" }

AllowLists ==
  { <<>>, <<"users">>, <<"orders", "users">>, <<"users", "orders">>,
    <<"ghost">>, <<"users", "ghost">>, <<"users", "users">> }

\* Catalogs of the generator and of concurrent operations: every relation
\* is absent or has one column and a description.
SmallCatalogs ==
  {PgClassOf(shape, 1) :
     shape \in [1..Len(RelationSlots) ->
                  {Absent, [present |-> TRUE, ncols |-> 1, described |-> TRUE]}]}

\* A catalog whose only relation is named like the file mod.rs.
ModRsCatalog ==
  << [oid |-> 16390, relname |-> "mod.rs", nspname |-> "public", ncols |-> 1,
      description |-> None] >>

\* Catalogs of the generator: no relation, the relation mod.rs alone, and
\* both orders and users in schema public.
GeneratorCatalogs ==
  {c \in SmallCatalogs :
     TableMapKeys(PostgresTables(c, "", "public")) \in {{}, {"orders", "users"}}
     /\ PostgresTables(c, "", "audit") = <<>>}
    \cup {ModRsCatalog}

\* The templates the program embeds (the folder templates/), each with
\* whether tera renders it.
AllTemplates ==
  {"rust/error.html", "rust/mod.html", "rust/model.html"}
    \cup {JavaFiles[i][3] : i \in 1..Len(JavaFiles)}

\* The folders the program may be built with: every template renders, no
\* template is embedded, rust/model.html does not render, rust/mod.html and
\* java/entity.html are not UTF-8.
TemplateFolders ==
  { [t \in AllTemplates |-> "valid"],
    NoTemplates,
    [t \in AllTemplates |-> IF t = "rust/model.html" THEN "invalid" ELSE "valid"],
    [t \in AllTemplates |->
       IF t \in {"rust/mod.html", "java/entity.html"} THEN "not_utf8" ELSE "valid"] }

\* The file systems the program may start on: nothing exists, the directory
\* out exists, and a directory is where out/mod.rs is to be written.
FileSystems ==
  { [files |-> <<>>, dirs |-> {}],
    [files |-> <<>>, dirs |-> { <<"out">> }],
    [files |-> <<>>, dirs |-> { <<"out">>, <<"out", "mod.rs">> }] }

\* The gen_* switches of generator.toml.
GenFlags(mod, error, entity, mapper) ==
  [gen_mod |-> mod, gen_error |-> error, gen_entity |-> entity,
   gen_mapper |-> mapper, gen_mapper_xml |-> FALSE, gen_service |-> FALSE,
   gen_controller |-> FALSE]

\* A GeneratorConfig for the Postgres URL, schema public and path "out".
Config(language, table_names, override, flags) ==
  [database_url |-> PostgresUrl, schema |-> "public", language |-> language,
   table_names |-> table_names, path |-> "out", override |-> override,
   gen_mod |-> flags.gen_mod, gen_error |-> flags.gen_error,
   gen_entity |-> flags.gen_entity, gen_mapper |-> flags.gen_mapper,
   gen_mapper_xml |-> flags.gen_mapper_xml, gen_service |-> flags.gen_service,
   gen_controller |-> flags.gen_controller]

ConfigTableNames == { <<>>, <<"users">> }

Configs ==
  {Config("Rust", t, o, g) :
     t \in ConfigTableNames, o \in BOOLEAN,
     g \in {GenFlags(TRUE, TRUE, TRUE, FALSE), GenFlags(FALSE, FALSE, TRUE, FALSE),
            GenFlags(TRUE, FALSE, FALSE, FALSE)}}
  \cup {Config("Java", t, FALSE, GenFlags(FALSE, FALSE, TRUE, TRUE)) :
          t \in ConfigTableNames}

\* Paths and texts given to write_file when it is called on its own.
WritePaths ==
  { <<"out", "mod.rs">>, <<"outusers", "users.rs">>, <<"a", "b", "c", "mod.rs">> }

WriteTexts == {Text("rust/mod.html", NoCtx)}

\* Paths given to the template command.
TemplatePaths == { <<"generator.toml">>, <<"out", "mod.rs">> }

\* How the file system may answer the template command.
TemplateIo ==
  {Io(at, 0) : at \in {"ok", "create", "write_all", "write_all_partial"}}

\* The operations invoked concurrently.
TaskCalls ==
  { TaskCall("tables", "", "public", "", <<>>, <<>>),
    TaskCall("columns", "", "public", "users", <<>>, <<>>),
    TaskCall("columns", "", "audit", "users", <<>>, <<>>),
    TaskCall("columns", "", "public", "orders", <<>>, <<>>),
    TaskCall("fetch_table_column", "", "public", "", PostgresUrl, <<>>),
    TaskCall("fetch_table_column", "", "public", "", PostgresUrl, <<"users">>),
    TaskCall("fetch_table_column", "", "public", "", FtpUrl, <<>>) }

(***************************************************************************)
(* State and operations.                                                   *)
(*   catalog  the engine's catalog (pg_class rows)                         *)
(*   pc       "idle", the await point of fetch_table_column, or "done"     *)
(*   call     the operation invoked and its arguments                      *)
(*   result   how the call ended                                           *)
(*   tables, columns   the locals of fetch_table_column                    *)
(*   queries  the round trips to the pool made by the call                 *)
(*   files    the file system: path -> contents of the files that exist    *)
(*   dirs     the file system: the directories that exist                  *)
(*   templates  the embedded templates: path -> whether tera renders it    *)
(*   invocations  how many times the generator program has been started    *)
(*   data     the preview map of Generator::write and the entries written  *)
(*   wrote    the last invocation of Generator::write_file                 *)
(*   tasks    the operations outstanding concurrently on one provider      *)
(***************************************************************************)
NoCall == [op |-> "none"]

\* No file exists.
NoFiles == <<>>

\* Generator::write has not computed its preview.
NoData == [preview |-> <<>>, written |-> {}]

\* Generator::write_file has not been invoked.
NoWrite == [path |-> <<>>]

Idle ==
  /\ pc = "idle"
  /\ call = NoCall
  /\ result = NoResult
  /\ tables = <<>>
  /\ columns = <<>>
  /\ queries = <<>>
  /\ files = NoFiles
  /\ dirs = {}
  /\ templates = NoTemplates
  /\ invocations = 0
  /\ data = NoData
  /\ wrote = NoWrite
  /\ tasks = <<>>

Init == catalog \in Catalogs /\ Idle

InitMapper == catalog = <<>> /\ Idle

\* Driver::try_from(url)
CallDriverTryFrom(url) ==
  /\ pc = "idle"
  /\ pc' = "done"
  /\ call' = [op |-> "Driver::try_from", value |-> url]
  /\ result' = DriverTryFrom(url)
  /\ UNCHANGED << files, data, wrote, tasks, catalog, dirs, templates, invocations, tables, columns, queries >>

\* ColumnType::from(value)
CallColumnTypeFrom(value) ==
  /\ pc = "idle"
  /\ pc' = "done"
  /\ call' = [op |-> "ColumnType::from", value |-> value]
  /\ result' = ColumnTypeFrom(value)
  /\ UNCHANGED << files, data, wrote, tasks, catalog, dirs, templates, invocations, tables, columns, queries >>

\* t2t(ty)
CallT2T(ty) ==
  /\ pc = "idle"
  /\ pc' = "done"
  /\ call' = [op |-> "t2t", value |-> ty]
  /\ result' = Return(T2T(ty))
  /\ UNCHANGED << files, data, wrote, tasks, catalog, dirs, templates, invocations, tables, columns, queries >>

\* database_metadata(url).await
CallDatabaseMetadata(url, reachable) ==
  /\ pc = "idle"
  /\ pc' = "done"
  /\ call' = [op |-> "database_metadata", url |-> url]
  /\ result' = DatabaseMetadata(url, reachable)
  /\ queries' = DatabaseMetadataIo(url)
  /\ UNCHANGED << files, data, wrote, tasks, catalog, dirs, templates, invocations, tables, columns >>

\* PostgresMetadata::tables(database, schema).await
CallTables(database, schema, outcome) ==
  /\ pc = "idle"
  /\ pc' = "done"
  /\ call' = [op |-> "tables", database |-> database, schema |-> schema]
  /\ result' = QueryResult(outcome, PostgresTables(catalog, database, schema))
  /\ queries' = << TablesQuery(database, schema, outcome) >>
  /\ UNCHANGED << files, data, wrote, tasks, catalog, dirs, templates, invocations, tables, columns >>

\* PostgresMetadata::columns(database, schema, table_name).await
CallColumns(database, schema, table_name, outcome) ==
  /\ pc = "idle"
  /\ pc' = "done"
  /\ call' = [op |-> "columns", database |-> database, schema |-> schema,
              table_name |-> table_name]
  /\ result' = QueryResult(outcome,
                           PostgresColumns(catalog, database, schema, table_name))
  /\ queries' = << ColumnsQuery(database, schema, table_name, outcome) >>
  /\ UNCHANGED << files, data, wrote, tasks, catalog, dirs, templates, invocations, tables, columns >>

\* PostgresMetadata::databases() and ::schemas(): todo!() runs when the
\* method is called, before any future is returned.
CallUnimplemented(op) ==
  /\ pc = "idle"
  /\ pc' = "done"
  /\ call' = [op |-> op]
  /\ result' = PostgresTodo
  /\ UNCHANGED << files, data, wrote, tasks, catalog, dirs, templates, invocations, tables, columns, queries >>

\* PostgresMetadata::indexs(..) and ::create_table_sql(..)
CallUnimplementedFor(op, database, schema, table_name) ==
  /\ pc = "idle"
  /\ pc' = "done"
  /\ call' = [op |-> op, database |-> database, schema |-> schema,
              table_name |-> table_name]
  /\ result' = PostgresTodo
  /\ UNCHANGED << files, data, wrote, tasks, catalog, dirs, templates, invocations, tables, columns, queries >>

\* fetch_table_column(url, schema, table_names), up to its first query:
\* database_metadata(url).await.
FetchTableColumn(url, schema, table_names, reachable) ==
  LET metadata == DatabaseMetadata(url, reachable) IN
  /\ pc = "idle"
  /\ call' = [op |-> "fetch_table_column", url |-> url, schema |-> schema,
              table_names |-> table_names]
  /\ queries' = DatabaseMetadataIo(url)
  /\ IF metadata.kind = "return"
       THEN pc' = "tables" /\ UNCHANGED result
       ELSE pc' = "done" /\ result' = metadata
  /\ UNCHANGED << files, data, wrote, tasks, catalog, dirs, templates, invocations, tables, columns >>

\* let tables = metadata.tables("", schema).await?;
FetchTables(outcome) ==
  LET r == QueryResult(outcome, PostgresTables(catalog, "", call.schema)) IN
  /\ pc = "tables"
  /\ queries' = Append(queries, TablesQuery("", call.schema, outcome))
  /\ IF r.kind = "Ok"
       THEN pc' = "columns" /\ tables' = r.value /\ UNCHANGED result
       ELSE pc' = "done" /\ result' = r /\ UNCHANGED tables
  /\ UNCHANGED << files, data, wrote, tasks, catalog, dirs, templates, invocations, call, columns >>

\* columns.push(metadata.columns("", schema, name).await?) for the next name.
FetchColumns(outcome) ==
  LET targets == FetchTargets(call.table_names, tables)
      name    == targets[Len(columns) + 1]
      r       == QueryResult(outcome, PostgresColumns(catalog, "", call.schema, name))
  IN
  /\ pc = "columns"
  /\ Len(columns) < Len(targets)
  /\ queries' = Append(queries, ColumnsQuery("", call.schema, name, outcome))
  /\ IF r.kind = "Ok"
       THEN /\ columns' = Append(columns, r.value)
            /\ UNCHANGED << pc, result, tables >>
       ELSE /\ pc' = "done"
            /\ result' = r
            /\ tables' = <<>>
            /\ columns' = <<>>
  /\ UNCHANGED << files, data, wrote, tasks, catalog, dirs, templates, invocations, call >>

\* Ok((tables, columns.into_iter().flatten().collect()))
FetchReturn ==
  /\ pc = "columns"
  /\ Len(columns) = Len(FetchTargets(call.table_names, tables))
  /\ pc' = "done"
  /\ result' = Ok(<< tables, Flatten(columns) >>)
  /\ tables' = <<>>
  /\ columns' = <<>>
  /\ UNCHANGED << files, data, wrote, tasks, catalog, dirs, templates, invocations, call, queries >>

Next ==
  \/ \E url \in MetadataUrls, reachable \in BOOLEAN :
       CallDatabaseMetadata(url, reachable)
  \/ \E database \in Databases, schema \in Schemas, outcome \in QueryOutcomes :
       CallTables(database, schema, outcome)
  \/ \E database \in Databases, schema \in Schemas, table_name \in TableNames,
        outcome \in QueryOutcomes :
       CallColumns(database, schema, table_name, outcome)
  \/ \E url \in FetchUrls, schema \in Schemas, table_names \in AllowLists,
        reachable \in BOOLEAN :
       FetchTableColumn(url, schema, table_names, reachable)
  \/ \E op \in {"databases", "schemas"} : CallUnimplemented(op)
  \/ \E op \in {"indexs", "create_table_sql"}, schema \in Schemas,
        table_name \in TableNames :
       CallUnimplementedFor(op, "", schema, table_name)
  \/ \E outcome \in QueryOutcomes : FetchTables(outcome)
  \/ \E outcome \in QueryOutcomes : FetchColumns(outcome)
  \/ FetchReturn

Spec == Init /\ [][Next]_vars

NextMapper ==
  \/ \E url \in Urls : CallDriverTryFrom(url)
  \/ \E value \in NativeTypes : CallColumnTypeFrom(value)
  \/ \E ty \in NativeTypes : CallT2T(ty)

SpecMapper == InitMapper /\ [][NextMapper]_vars

(***************************************************************************)
(* Operations of the code generator.  One invocation of the program is a   *)
(* create command (Generator::run), a template command, or, on its own,    *)
(* Generator::write_file.                                                  *)
(***************************************************************************)
\* Generator::run(config), up to the first query of prepare:
\* database_metadata(&config.database_url).await.
GenRun(config, reachable) ==
  LET metadata == DatabaseMetadata(config.database_url, reachable) IN
  /\ pc = "idle"
  /\ invocations < MaxInvocations
  /\ invocations' = invocations + 1
  /\ call' = [op |-> "run", config |-> config, round |-> 1, before |-> files]
  /\ queries' = DatabaseMetadataIo(config.database_url)
  /\ IF metadata.kind = "return"
       THEN pc' = "prepare_tables" /\ UNCHANGED result
       ELSE pc' = "done" /\ result' = metadata
  /\ UNCHANGED << files, dirs, templates, data, wrote, tasks, catalog, tables,
                  columns >>

\* let tables = meta.tables("", &config.schema).await?;
PrepareTables(outcome) ==
  LET r == QueryResult(outcome, PostgresTables(catalog, "", call.config.schema)) IN
  /\ pc = "prepare_tables"
  /\ queries' = Append(queries, TablesQuery("", call.config.schema, outcome))
  /\ IF r.kind = "Ok"
       THEN pc' = "prepare_columns" /\ tables' = r.value /\ UNCHANGED result
       ELSE /\ pc' = "done"
            /\ result' = Err(AnyhowError(r.error.source))
            /\ UNCHANGED tables
  /\ UNCHANGED << files, dirs, templates, invocations, data, wrote, tasks,
                  catalog, call, columns >>

\* columns.extend(meta.columns("", &config.schema, &t).await?) for the next t.
PrepareColumns(outcome) ==
  LET targets == PrepareTargets(call.config, tables)
      name    == targets[Len(columns) + 1]
      r       == QueryResult(outcome,
                             PostgresColumns(catalog, "", call.config.schema, name))
  IN
  /\ pc = "prepare_columns"
  /\ Len(columns) < Len(targets)
  /\ queries' = Append(queries, ColumnsQuery("", call.config.schema, name, outcome))
  /\ IF r.kind = "Ok"
       THEN /\ columns' = Append(columns, r.value)
            /\ UNCHANGED << pc, result, tables >>
       ELSE /\ pc' = "done"
            /\ result' = Err(AnyhowError(r.error.source))
            /\ tables' = <<>>
            /\ columns' = <<>>
  /\ UNCHANGED << files, dirs, templates, invocations, data, wrote, tasks,
                  catalog, call >>

\* prepare has returned Ok((tables, columns)).
Prepared ==
  /\ pc = "prepare_columns"
  /\ Len(columns) = Len(PrepareTargets(call.config, tables))

\* run returns Ok(()) when prepare found no table or no column.
PrepareEmpty ==
  /\ Prepared
  /\ tables = <<>> \/ Flatten(columns) = <<>>
  /\ pc' = "done"
  /\ result' = Ok(Unit)
  /\ tables' = <<>>
  /\ columns' = <<>>
  /\ UNCHANGED << files, dirs, templates, invocations, data, wrote, tasks,
                  catalog, call, queries >>

\* run calls prepare a second time after the first found tables and columns.
PrepareAgain(reachable) ==
  LET metadata == DatabaseMetadata(call.config.database_url, reachable) IN
  /\ Prepared
  /\ tables # <<>> /\ Flatten(columns) # <<>>
  /\ call.round = 1
  /\ call' = [call EXCEPT !.round = 2]
  /\ queries' = queries \o DatabaseMetadataIo(call.config.database_url)
  /\ tables' = <<>>
  /\ columns' = <<>>
  /\ IF metadata.kind = "return"
       THEN pc' = "prepare_tables" /\ UNCHANGED result
       ELSE pc' = "done" /\ result' = metadata
  /\ UNCHANGED << files, dirs, templates, invocations, data, wrote, tasks,
                  catalog >>

\* self.write(&config, tables, tables_columns), up to its first write_file:
\* preview renders every text before anything is written.
GenWrite ==
  LET preview == Preview(templates, call.config, tables, Flatten(columns)) IN
  /\ Prepared
  /\ tables # <<>> /\ Flatten(columns) # <<>>
  /\ call.round = 2
  /\ tables' = <<>>
  /\ columns' = <<>>
  /\ IF preview.kind # "Ok"
       THEN pc' = "done" /\ result' = preview /\ UNCHANGED data
       ELSE /\ data' = [preview |-> preview.value, written |-> {}]
            /\ IF call.config.language = "Java"
                 THEN pc' = "done" /\ result' = JavaTodo
                 ELSE IF WriteEntries(call.config, preview.value) = {}
                   THEN pc' = "done" /\ result' = Ok(Unit)
                   ELSE pc' = "write" /\ UNCHANGED result
  /\ UNCHANGED << files, dirs, templates, invocations, wrote, tasks, catalog,
                  call, queries >>

\* Self::write_file(path, code, config.override).await? for file f of key k.
WriteNext(k, f, io) ==
  LET pending  == WriteEntries(call.config, data.preview) \ data.written
      path     == PathOf(call.config, k, f)
      contents == data.preview[k][f]
      r        == WriteFile(files, dirs, path, contents, call.config.override, io)
  IN
  /\ pc = "write"
  /\ <<k, f>> \in pending
  /\ \A e \in pending : Stage(k) <= Stage(e[1])
  /\ files' = r.files
  /\ dirs' = r.dirs
  /\ wrote' = Written(files, dirs, path, contents, call.config.override, r.result)
  /\ IF r.result.kind = "Err"
       THEN pc' = "done" /\ result' = r.result /\ UNCHANGED data
       ELSE /\ data' = [data EXCEPT !.written = @ \cup {<<k, f>>}]
            /\ IF pending = {<<k, f>>}
                 THEN pc' = "done" /\ result' = Ok(Unit)
                 ELSE UNCHANGED << pc, result >>
  /\ UNCHANGED << templates, invocations, tasks, catalog, call, tables, columns,
                  queries >>

\* Generator::write_file(path, contents, override).await
CallWriteFile(path, contents, override, io) ==
  LET r == WriteFile(files, dirs, path, contents, override, io) IN
  /\ pc = "idle"
  /\ invocations < MaxInvocations
  /\ invocations' = invocations + 1
  /\ pc' = "done"
  /\ call' = [op |-> "write_file", path |-> path, override |-> override]
  /\ result' = r.result
  /\ files' = r.files
  /\ dirs' = r.dirs
  /\ wrote' = Written(files, dirs, path, contents, override, r.result)
  /\ UNCHANGED << templates, data, tasks, catalog, tables, columns, queries >>

\* Commands::Template of main: the configuration file is created from
\* generator.toml unless something is at config_path.
CallTemplate(config_path, io) ==
  /\ pc = "idle"
  /\ invocations < MaxInvocations
  /\ invocations' = invocations + 1
  /\ pc' = "done"
  /\ call' = [op |-> "template", config_path |-> config_path]
  /\ result' = Return(Unit)
  /\ files' = Template(files, dirs, config_path, io)
  /\ UNCHANGED << dirs, templates, data, wrote, tasks, catalog, tables, columns,
                  queries >>

\* The process has ended and the program is started again: the files stay.
NextInvocation ==
  /\ pc = "done"
  /\ call.op \in {"run", "write_file", "template"}
  /\ pc' = "idle"
  /\ call' = NoCall
  /\ result' = NoResult
  /\ tables' = <<>>
  /\ columns' = <<>>
  /\ queries' = <<>>
  /\ data' = NoData
  /\ wrote' = NoWrite
  /\ UNCHANGED << files, dirs, templates, invocations, tasks, catalog >>

InitGenerator ==
  /\ catalog \in GeneratorCatalogs
  /\ templates \in TemplateFolders
  /\ \E fs \in FileSystems : files = fs.files /\ dirs = fs.dirs
  /\ pc = "idle"
  /\ call = NoCall
  /\ result = NoResult
  /\ tables = <<>>
  /\ columns = <<>>
  /\ queries = <<>>
  /\ data = NoData
  /\ wrote = NoWrite
  /\ tasks = <<>>
  /\ invocations = 0

NextGenerator ==
  \/ \E config \in Configs, reachable \in BOOLEAN : GenRun(config, reachable)
  \/ \E outcome \in QueryOutcomes : PrepareTables(outcome)
  \/ \E outcome \in QueryOutcomes : PrepareColumns(outcome)
  \/ PrepareEmpty
  \/ \E reachable \in BOOLEAN : PrepareAgain(reachable)
  \/ GenWrite
  \/ \E k \in DOMAIN data.preview :
       \E f \in DOMAIN data.preview[k] :
         \E io \in IoOutcomes(PathOf(call.config, k, f)) : WriteNext(k, f, io)
  \/ \E path \in WritePaths, contents \in WriteTexts, override \in BOOLEAN :
       \E io \in IoOutcomes(path) : CallWriteFile(path, contents, override, io)
  \/ \E config_path \in TemplatePaths, io \in TemplateIo :
       CallTemplate(config_path, io)
  \/ NextInvocation

SpecGenerator == InitGenerator /\ [][NextGenerator]_vars

(***************************************************************************)
(* Concurrent operations.                                                  *)
(***************************************************************************)
\* The tasks that have ended.
Ended == {i \in 1..Len(tasks) : tasks[i].pc = "done"}

\* std::process::exit(1) of database_metadata has ended the process, and
\* with it every task.
Exited == \E i \in 1..Len(tasks) : tasks[i].result.kind = "exit"

\* An operation is invoked while others are outstanding.
Spawn(taskcall) ==
  /\ ~Exited
  /\ Len(tasks) < MaxTasks
  /\ tasks' = Append(tasks,
                     LET t == TaskStart(taskcall) IN
                       IF t.pc = "done"
                         THEN [t EXCEPT !.rank = Cardinality(Ended) + 1]
                         ELSE t)
  /\ UNCHANGED << catalog, dirs, templates, invocations, pc, call, result, tables, columns, queries,
                  files, data, wrote >>

\* The connect of the task's own pool ends: it is established or refused.
TaskConnect(i, reachable) ==
  /\ ~Exited
  /\ tasks[i].pc = "connect"
  /\ tasks' = [tasks EXCEPT
                 ![i] = TaskConnected(tasks[i], reachable, Cardinality(Ended) + 1)]
  /\ UNCHANGED << catalog, dirs, templates, invocations, pc, call, result, tables, columns, queries,
                  files, data, wrote >>

\* fetch_all(&self.0) acquires a connection of the task's pool and sends the
\* statement.  No pool option is set (PgPool::connect(url)), so tasks do not
\* wait for one another's connections.
TaskAcquire(i) ==
  /\ ~Exited
  /\ tasks[i].pc = "acquire"
  /\ tasks' = [tasks EXCEPT ![i].pc = "querying"]
  /\ UNCHANGED << catalog, dirs, templates, invocations, pc, call, result, tables, columns, queries,
                  files, data, wrote >>

\* The pool hands out no connection before the acquire timeout.
TaskTimeout(i) ==
  /\ ~Exited
  /\ tasks[i].pc = "acquire"
  /\ tasks' = [tasks EXCEPT
                 ![i] = TaskAdvance(tasks[i], QueryResult("PoolTimedOut", <<>>),
                                    Cardinality(Ended) + 1)]
  /\ UNCHANGED << catalog, dirs, templates, invocations, pc, call, result, tables, columns, queries,
                  files, data, wrote >>

\* The engine answers the task's statement and the connection is released.
TaskComplete(i, outcome) ==
  /\ ~Exited
  /\ tasks[i].pc = "querying"
  /\ tasks' = [tasks EXCEPT
                 ![i] = TaskAdvance(tasks[i],
                                    QueryResult(outcome,
                                                Response(catalog, Issued(tasks, i))),
                                    Cardinality(Ended) + 1)]
  /\ UNCHANGED << catalog, dirs, templates, invocations, pc, call, result, tables, columns, queries,
                  files, data, wrote >>

InitConcurrent == catalog \in SmallCatalogs /\ Idle

NextConcurrent ==
  \/ \E taskcall \in TaskCalls : Spawn(taskcall)
  \/ \E i \in 1..Len(tasks), reachable \in BOOLEAN : TaskConnect(i, reachable)
  \/ \E i \in 1..Len(tasks) : TaskAcquire(i)
  \/ \E i \in 1..Len(tasks) : TaskTimeout(i)
  \/ \E i \in 1..Len(tasks), outcome \in {"rows", "Database"} :
       TaskComplete(i, outcome)

SpecConcurrent == InitConcurrent /\ [][NextConcurrent]_vars

(***************************************************************************)
(* Properties of the driver resolver and the type mapper (SpecMapper).     *)
(***************************************************************************)
Resolved == pc = "done" /\ call.op = "Driver::try_from"

\* The trimmed, lower-cased form of the resolver's input.
Scheme == ToLowercase(Trim(call.value))

HasUpper(s) == \E i \in 1..Len(s) : ToLowerChar(s[i]) # s[i]

\* C1: whenever the trimmed, lower-cased input starts with "mysql",
\* "postgres" or "sqlite", Driver::try_from returns Ok with the matching
\* dialect, whatever follows the prefix.
C1_RecognizedPrefixResolves ==
  Resolved =>
    /\ StartsWith(Scheme, PrefixMysql) => result = Ok("Mysql")
    /\ StartsWith(Scheme, PrefixPostgres) => result = Ok("Postgres")
    /\ StartsWith(Scheme, PrefixSqlite) => result = Ok("Sqlite")

\* A padded, mixed-case Postgres URL with a tail after the prefix resolved.
C1_Witness ==
  /\ Resolved
  /\ result = Ok("Postgres")
  /\ Head(call.value) \in Whitespace
  /\ Head(call.value) \notin {" ", "\t", "\n"}
  /\ HasUpper(call.value)
  /\ Len(Scheme) > Len(PrefixPostgres)

\* C2: when the trimmed, lower-cased input starts with none of the three
\* prefixes, Driver::try_from returns the unsupported-driver error, which
\* differs from every other error the crate produces; it returns no
\* dialect and makes no round trip.
C2_UnrecognizedPrefixFails ==
  (/\ Resolved
   /\ ~StartsWith(Scheme, PrefixMysql)
   /\ ~StartsWith(Scheme, PrefixPostgres)
   /\ ~StartsWith(Scheme, PrefixSqlite))
    => /\ result = Err(UnsupportedDriver)
       /\ result.kind # "Ok"
       /\ UnsupportedDriver \notin
            {ErrorIo, ErrorUnknown} \cup {ErrorSql(o) : o \in QueryOutcomes \ {"rows"}}
       /\ queries = <<>>

\* An ftp URL was refused.
C2_Witness ==
  /\ Resolved
  /\ StartsWith(Scheme, <<"f","t","p",":","/","/">>)
  /\ result = Err(UnsupportedDriver)

Mapped == pc = "done" /\ call.op = "ColumnType::from"

\* The spelling of a variant: its identifier in upper case.
SupportedSpellings == {ToUppercase(v) : v \in ColumnType}

\* C4: for every supported spelling, in any letter case and with
\* surrounding whitespace, ColumnType::from returns the variant whose
\* identifier is that spelling (so distinct spellings give distinct
\* variants).
C4_SupportedSpellingMapsToVariant ==
  (Mapped /\ ToUppercase(Trim(call.value)) \in SupportedSpellings)
    => /\ result.kind = "return"
       /\ result.value \in ColumnType
       /\ ToUppercase(result.value) = ToUppercase(Trim(call.value))

\* A padded, mixed-case "varchar" was mapped to VarChar.
C4_Witness ==
  /\ Mapped
  /\ result = Return(<<"V","a","r","C","h","a","r">>)
  /\ call.value # Trim(call.value)
  /\ \E i \in DOMAIN call.value : call.value[i] = "\r"
  /\ ToUppercase(call.value) # call.value
  /\ ToLowercase(call.value) # call.value

\* C5: a native type name outside the supported table makes the mapping
\* return an error value: ColumnType::from does not abort, and t2t does
\* not fall back to String.
C5_UnmappedTypeIsError ==
  /\ (Mapped /\ ToUppercase(Trim(call.value)) \notin ColumnTypeLiterals)
       => result.kind = "Err"
  /\ (/\ pc = "done"
      /\ call.op = "t2t"
      /\ ToUppercase(call.value) \notin (T2TLiterals \cup T2TDocumentedString))
       => result.kind = "Err"

(***************************************************************************)
(* Properties of the provider and the schema aggregator (Spec).            *)
(***************************************************************************)
Range(f) == {f[i] : i \in DOMAIN f}

\* C3: fetch_table_column and database_metadata hand every failure to the
\* caller as an error value: the unsupported-driver error for an
\* unrecognized URL, a connection error for an unreachable pool; the call
\* neither panics nor ends the process.
C3_FailuresAreReturned ==
  (pc = "done" /\ call.op \in {"database_metadata", "fetch_table_column"})
    => /\ result.kind \notin {"panic", "exit"}
       /\ DriverTryFrom(call.url).kind = "Err" => result = Err(UnsupportedDriver)

ColumnsDone == pc = "done" /\ call.op = "columns" /\ result.kind = "Ok"

\* C6: every column returned by the Postgres adapter's columns carries
\* its canonical type, the non-empty Rust type t2t gives for the row's
\* native type, and is_null = TRUE exactly for rows the engine reports as
\* nullable.
C6_ColumnsAreAnnotated ==
  ColumnsDone =>
    LET rows == ColumnsRows(catalog, call.database, call.schema, call.table_name) IN
      \A i \in 1..Len(result.value) :
        /\ result.value[i].type # None
        /\ result.value[i].rust_type # ""
        /\ result.value[i].rust_type = T2T(rows[i].data_type)
        /\ result.value[i].is_null = (rows[i].is_nullable = "YES")

TablesDone == pc = "done" /\ call.op = "tables" /\ result.kind = "Ok"

\* C7: tables("", schema) and tables(<current database>, schema) return
\* the same tables in the same order, for every catalog and schema.
C7_EmptyDatabaseIsCurrent ==
  (TablesDone /\ call.database \in {"", CurrentDatabase})
    => result.value =
         PostgresTables(catalog,
                        IF call.database = "" THEN CurrentDatabase ELSE "",
                        call.schema)

\* tables("", schema) found two or more tables.
C7_Witness ==
  /\ TablesDone
  /\ call.database = ""
  /\ Len(result.value) >= 2

\* The ordinal position of a returned column (columns are named by position).
OrdinalOf(c) ==
  CHOOSE p \in 1..Len(ColumnDefs) : ColumnDefs[p].column_name = c.name

\* C8: the columns returned for a table are strictly ascending by ordinal
\* position, so no column is returned twice.
C8_ColumnsStrictlyAscending ==
  (/\ ColumnsDone
   /\ \E i \in 1..Len(catalog) :
        /\ catalog[i].relname = call.table_name
        /\ catalog[i].nspname =
             (IF call.schema = "" THEN CurrentSchema ELSE call.schema)
        /\ catalog[i].ncols >= 2)
    => \A i \in 1..(Len(result.value) - 1) :
         OrdinalOf(result.value[i]) < OrdinalOf(result.value[i + 1])

FetchOk == pc = "done" /\ call.op = "fetch_table_column" /\ result.kind = "Ok"

\* The table_name values over the columns part of the aggregator's result.
ColumnTableNames == {c.table_name : c \in Range(result.value[2])}

\* The names over the tables part of the aggregator's result.
TableNamesFound == {tb.name : tb \in Range(result.value[1])}

\* The schema the columns query filters on.
EffectiveSchema(schema) == IF schema = "" THEN CurrentSchema ELSE schema

\* The catalog holds relation `name` in `schema` with at least one column.
HasColumns(schema, name) ==
  \E i \in 1..Len(catalog) :
    /\ catalog[i].nspname = schema
    /\ catalog[i].relname = name
    /\ catalog[i].ncols > 0

\* C9 as stated: with a non-empty allowlist, the table_name values of the
\* returned columns are exactly the allowlisted names.
C9_ColumnsCoverAllowlist ==
  (FetchOk /\ call.table_names # <<>>)
    => ColumnTableNames = Range(call.table_names)

\* C9 amended: with a non-empty allowlist, the table_name values of the
\* returned columns are exactly the allowlisted names that name a relation
\* with at least one column in the schema queried; no other table appears.
C9_ColumnsCoverExistingAllowlisted ==
  (FetchOk /\ call.table_names # <<>>)
    => /\ ColumnTableNames =
            {n \in Range(call.table_names) :
               HasColumns(EffectiveSchema(call.schema), n)}
       /\ ColumnTableNames \subseteq Range(call.table_names)

\* An allowlist naming one existing and one missing table succeeded with
\* the columns of the existing one only, while the schema holds another table.
C9_Witness ==
  /\ FetchOk
  /\ call.table_names = <<"users", "ghost">>
  /\ ColumnTableNames = {"users"}
  /\ "orders" \in TableNamesFound

\* The number of tables of `schema` in the connected database.
TableCount(schema) ==
  Cardinality({i \in 1..Len(catalog) : catalog[i].nspname = schema})

\* C10 as stated: with an empty allowlist, the distinct table_name values
\* of the returned columns are as many as the schema has tables, and are
\* the names of the tables part.
C10_ColumnsCoverEveryTable ==
  (FetchOk /\ call.table_names = <<>>)
    => /\ Cardinality(ColumnTableNames) = TableCount(call.schema)
       /\ ColumnTableNames = TableNamesFound

\* C10 amended: with an empty allowlist, the distinct table_name values of
\* the returned columns are the names of the discovered tables that have
\* at least one column; they are all N discovered names when every table
\* of the schema has a column.
C10_ColumnsCoverTablesWithColumns ==
  (FetchOk /\ call.table_names = <<>>)
    => /\ ColumnTableNames = {n \in TableNamesFound : HasColumns(call.schema, n)}
       /\ (\A n \in TableNamesFound : HasColumns(call.schema, n))
            => /\ Cardinality(ColumnTableNames) = TableCount(call.schema)
               /\ ColumnTableNames = TableNamesFound

\* An empty allowlist against a schema of two tables, both with columns.
C10_Witness ==
  /\ FetchOk
  /\ call.table_names = <<>>
  /\ TableCount(call.schema) = 2
  /\ Cardinality(ColumnTableNames) = 2

\* The first position of `name` in the tables part of the aggregator's result.
DiscoveryIndex(name) ==
  Min({i \in 1..Len(result.value[1]) : result.value[1][i].name = name})

\* C11 as stated: for an empty and a non-empty allowlist alike, the columns
\* part lists the tables in table-discovery order: a column of a table found
\* later in the tables part never precedes a column of a table found earlier.
C11_ColumnsInDiscoveryOrder ==
  FetchOk =>
    \A i, j \in 1..Len(result.value[2]) :
      (/\ i < j
       /\ result.value[2][i].table_name \in TableNamesFound
       /\ result.value[2][j].table_name \in TableNamesFound)
        => DiscoveryIndex(result.value[2][i].table_name)
             <= DiscoveryIndex(result.value[2][j].table_name)

\* The order in which the aggregator visits tables: the order of the tables
\* part when the allowlist is empty, the order of the allowlist otherwise.
VisitOrder ==
  IF call.table_names = <<>>
    THEN [i \in 1..Len(result.value[1]) |-> result.value[1][i].name]
    ELSE call.table_names

\* C11 amended: the columns part is the concatenation, never re-sorted, of
\* the lists columns("", schema, name) returns, one contiguous list per
\* visited name: in the order of the tables part when the allowlist is
\* empty, in the order of the allowlist when it is not.
C11_ColumnsInVisitOrder ==
  FetchOk =>
    result.value[2] =
      Flatten([i \in 1..Len(VisitOrder) |->
                 PostgresColumns(catalog, "", call.schema, VisitOrder[i])])

\* An allowlist naming two tables in the reverse of their discovery order,
\* both with columns.
C11_Witness ==
  /\ FetchOk
  /\ call.table_names = <<"users", "orders">>
  /\ Len(result.value[1]) = 2
  /\ result.value[1][1].name = "orders"
  /\ result.value[1][2].name = "users"
  /\ ColumnTableNames = {"users", "orders"}

\* The positions in the query log of the round trips of kind `op`.
QueriesOf(op) == {i \in 1..Len(queries) : queries[i].op = op}

\* C12: in fetch_table_column a failed tables or columns query is the last
\* round trip of the call and its error is the call's result; the call
\* returns Ok only after one successful tables query and one successful
\* columns query per visited name, so never with partial data.
C12_FirstFailureAbortsFetch ==
  call.op = "fetch_table_column" =>
    /\ \A i \in QueriesOf("tables") \cup QueriesOf("columns") :
         queries[i].outcome # "rows"
           => /\ i = Len(queries)
              /\ pc = "done"
              /\ result = Err(ErrorSql(queries[i].outcome))
    /\ FetchOk
         => /\ \A i \in QueriesOf("tables") \cup QueriesOf("columns") :
                 queries[i].outcome = "rows"
            /\ Cardinality(QueriesOf("tables")) = 1
            /\ Cardinality(QueriesOf("columns")) = Len(VisitOrder)
            /\ \A k \in 1..Len(VisitOrder) :
                 queries[Len(queries) - Len(VisitOrder) + k].binds[3] = VisitOrder[k]

\* The columns query of the first of two allowlisted tables failed: the
\* call ended with that error and the second table was never asked for.
C12_Witness ==
  /\ pc = "done"
  /\ call.op = "fetch_table_column"
  /\ call.table_names = <<"orders", "users">>
  /\ Len(queries) = 3
  /\ queries[3].op = "columns"
  /\ queries[3].binds[3] = "orders"
  /\ queries[3].outcome = "Database"
  /\ result = Err(ErrorSql("Database"))

UnimplementedOps == {"databases", "schemas", "indexs", "create_table_sql"}

\* C13: an operation the Postgres adapter does not implement (databases,
\* schemas, indexs, create_table_sql) ends with a typed error value; it
\* neither returns an empty collection nor aborts.
C13_UnimplementedIsTypedError ==
  (pc = "done" /\ call.op \in UnimplementedOps)
    => /\ result.kind = "Err"
       /\ result.kind # "panic"

\* C14: in every successful result of fetch_table_column, for every schema
\* argument (the empty one included) and every allowlist, the table_name of
\* each returned column is the name of a table in the tables part.
C14_ColumnsReferToReturnedTables ==
  FetchOk => ColumnTableNames \subseteq TableNamesFound

\* The comment the catalog holds for table `name` of `schema`: its own
\* description, or its name when it has none.
OwnComment(schema, name) ==
  LET i == CHOOSE j \in 1..Len(catalog) :
             catalog[j].nspname = schema /\ catalog[j].relname = name
  IN IF catalog[i].description = None THEN name ELSE catalog[i].description[1]

\* C15: every table returned by tables carries as comment its own
\* description when it has one and its name otherwise; the comment is never
\* empty and never the description of another relation.
C15_CommentIsOwnDescriptionOrName ==
  TablesDone =>
    \A i \in 1..Len(result.value) :
      /\ result.value[i].comment # ""
      /\ result.value[i].comment =
           OwnComment(result.value[i].schema, result.value[i].name)

\* C20: tables returns each table of the requested schema exactly once: no
\* two entries share (schema, name) and there are as many entries as the
\* schema has tables, also when another schema holds a relation of the
\* same name.
C20_EachTableOnce ==
  (TablesDone /\ call.database \in {"", CurrentDatabase})
    => /\ \A i, j \in 1..Len(result.value) :
            (result.value[i].schema = result.value[j].schema
               /\ result.value[i].name = result.value[j].name) => i = j
       /\ Len(result.value) = TableCount(call.schema)

\* The positional placeholders that occur in a statement's WHERE clause.
Placeholders(sql) == {sql[f] : f \in DOMAIN sql} \cap {"$1", "$2", "$3"}

\* The positions a statement has values bound to.
BoundPositions(binds) ==
  {IF i = 1 THEN "$1" ELSE IF i = 2 THEN "$2" ELSE "$3" : i \in 1..Len(binds)}

\* The round trips tables and columns made in the current call.
Statements == {i \in 1..Len(queries) : queries[i].op \in {"tables", "columns"}}

\* C19 as stated: in every tables and columns statement the placeholders
\* that occur in the SQL are exactly the positions values are bound to.
C19_PlaceholdersAreBoundPositions ==
  \A i \in Statements :
    Placeholders(queries[i].sql) = BoundPositions(queries[i].binds)

\* C19 amended: every placeholder that occurs in the SQL has a value bound;
\* tables always binds positions 1..2 and columns positions 1..3; the bound
\* positions the SQL does not reference are $1 when database is empty and,
\* in columns, $2 when schema is empty.
C19_PlaceholdersAreBound ==
  \A i \in Statements :
    LET q == queries[i] IN
    /\ Placeholders(q.sql) \subseteq BoundPositions(q.binds)
    /\ BoundPositions(q.binds) =
         (IF q.op = "tables" THEN {"$1", "$2"} ELSE {"$1", "$2", "$3"})
    /\ BoundPositions(q.binds) \ Placeholders(q.sql) =
         (IF q.binds[1] = "" THEN {"$1"} ELSE {})
           \cup (IF q.op = "columns" /\ q.binds[2] = "" THEN {"$2"} ELSE {})

\* columns("", "", table) ran: its SQL references $3 only and three values
\* were bound.
C19_Witness ==
  /\ pc = "done"
  /\ call.op = "columns"
  /\ call.database = ""
  /\ call.schema = ""
  /\ Placeholders(queries[1].sql) = {"$3"}
  /\ Len(queries[1].binds) = 3

\* C18 as stated: when the file exists and override is false, write_file
\* leaves it as it is and returns Ok; when the file does not exist, or
\* override is true, the file holds exactly `contents` after the call.
\* Hence a run of the generator with override = false changes no file that
\* existed when it started.
C18_WriteFileContentsExact ==
  /\ wrote # NoWrite =>
       /\ (wrote.existed /\ ~wrote.override)
            => /\ wrote.prev # None => /\ wrote.path \in DOMAIN files
                                       /\ files[wrote.path] = wrote.prev[1]
               /\ wrote.result = Ok(Unit)
       /\ (~wrote.existed \/ wrote.override)
            => /\ wrote.path \in DOMAIN files
               /\ files[wrote.path] = wrote.contents
  /\ (call.op = "run" /\ ~call.config.override)
       => \A p \in DOMAIN call.before :
            p \in DOMAIN files /\ files[p] = call.before[p]

\* C18: when something is at the path and override is false, write_file
\* leaves it as it is and returns Ok; when nothing is at the path, or
\* override is true, the file holds exactly `contents` after a call that
\* returned Ok.  Hence a run of the generator with override = false changes
\* no file that existed when it started, such as the files an earlier run
\* wrote.
C18_WriteFileRespectsOverride ==
  /\ wrote # NoWrite =>
       /\ (wrote.existed /\ ~wrote.override)
            => /\ wrote.prev # None => /\ wrote.path \in DOMAIN files
                                       /\ files[wrote.path] = wrote.prev[1]
               /\ wrote.prev = None => /\ wrote.path \notin DOMAIN files
                                       /\ wrote.path \in dirs
               /\ wrote.result = Ok(Unit)
       /\ ((~wrote.existed \/ wrote.override) /\ wrote.result.kind = "Ok")
            => /\ wrote.path \in DOMAIN files
               /\ files[wrote.path] = wrote.contents
  /\ (call.op = "run" /\ ~call.config.override)
       => \A p \in DOMAIN call.before :
            p \in DOMAIN files /\ files[p] = call.before[p]

\* A run with override = false reached a file that an earlier run had
\* written with other contents, and left it as it was.
C18_Witness ==
  /\ call.op = "run"
  /\ ~call.config.override
  /\ wrote # NoWrite
  /\ wrote.path \in DOMAIN call.before
  /\ wrote.prev # None
  /\ wrote.prev[1] # wrote.contents
  /\ wrote.prev[1].whole
  /\ wrote.prev[1].template = "rust/model.html"
  /\ files[wrote.path] = wrote.prev[1]

\* The keys of the preview map that stand for tables.
PreviewTables == DOMAIN data.preview \ {"error.rs", "mod.rs"}

\* C16: with a non-empty table_names the generator's preview map has
\* entries, and write produces files, only for the tables named in
\* table_names; with an empty table_names every discovered table has an
\* entry.
C16_OutputOnlyForConfiguredTables ==
  (call.op = "run" /\ data # NoData) =>
    /\ call.config.table_names # <<>>
         => /\ PreviewTables \subseteq Range(call.config.table_names)
            /\ \A e \in data.written :
                 e[1] \in PreviewTables => e[1] \in Range(call.config.table_names)
    /\ call.config.table_names = <<>>
         => PreviewTables =
              TableMapKeys(PostgresTables(catalog, "", call.config.schema))

\* What fetch_table_column returns when it runs alone and no query fails.
AloneFetch(cat, taskcall) ==
  LET tbls    == PostgresTables(cat, "", taskcall.schema)
      visited == IF taskcall.table_names = <<>>
                   THEN [k \in 1..Len(tbls) |-> tbls[k].name]
                   ELSE taskcall.table_names
  IN Ok(<< tbls,
           Flatten([k \in 1..Len(visited) |->
                      PostgresColumns(cat, "", taskcall.schema, visited[k])]) >>)

\* The results an operation can return when it is the only one outstanding:
\* the entities of the catalog for its own arguments, or the failure of one
\* of its round trips.
AloneResults(cat, taskcall) ==
  {Err(ErrorSql("PoolTimedOut")), Err(ErrorSql("Database"))}
    \cup
  (CASE taskcall.op = "tables" ->
          {Ok(PostgresTables(cat, taskcall.database, taskcall.schema))}
     [] taskcall.op = "columns" ->
          {Ok(PostgresColumns(cat, taskcall.database, taskcall.schema,
                              taskcall.table_name))}
     [] taskcall.op = "fetch_table_column" ->
          {AloneFetch(cat, taskcall), DatabaseMetadata(taskcall.url, FALSE)})

\* The entities of a returned value belong to the call's own arguments.
OwnEntities(taskcall, value) ==
  CASE taskcall.op = "tables" ->
         \A k \in 1..Len(value) : value[k].schema = taskcall.schema
    [] taskcall.op = "columns" ->
         \A k \in 1..Len(value) :
           /\ value[k].table_name = taskcall.table_name
           /\ value[k].schema = taskcall.schema
    [] taskcall.op = "fetch_table_column" ->
         /\ \A k \in 1..Len(value[1]) : value[1][k].schema = taskcall.schema
         /\ \A k \in 1..Len(value[2]) :
              /\ value[2][k].schema = taskcall.schema
              /\ taskcall.table_names # <<>>
                   => value[2][k].table_name \in Range(taskcall.table_names)

\* C17: with the catalog unchanged, whatever the interleaving and the
\* completion order of the outstanding operations, every operation returns:
\* none is left outstanding by the end of the process; each operation that
\* has returned holds a result it can return when it runs alone; and a
\* returned value holds only entities of the operation's own arguments.
C17_ConcurrentOperationsAreIsolated ==
  /\ \A i \in 1..Len(tasks) :
       tasks[i].pc = "done"
         => tasks[i].result \in AloneResults(catalog, tasks[i].call)
  /\ \A i \in 1..Len(tasks) :
       (tasks[i].pc = "done" /\ tasks[i].result.kind = "Ok")
         => OwnEntities(tasks[i].call, tasks[i].result.value)
  /\ \A i \in 1..Len(tasks) : tasks[i].pc # "done" => ~Exited

====
